---- MODULE Spec2Model ----
(***************************************************************************)
(* The correction-and-verification pipeline of python/extract_words.py:    *)
(* check_words_with_bbdc, auto_correct_with_llm (round 1),                  *)
(* process_failed_corrections (round 2), batch_verify_candidates,          *)
(* LLMWordCorrector and apply_corrections_to_file.                          *)
(*                                                                         *)
(* The recognition oracle and the LLM are external: every call draws its   *)
(* reply from a small set (failure, or any answer over the word universe). *)
(* A file is the sequence content.split('\n') of its text; Absent is a     *)
(* path at which no file exists.                                           *)
(***************************************************************************)
EXTENDS Integers, Sequences, FiniteSets, TLC

VARIABLES
    file,                \* the word-list file (file_path)
    backup,              \* file_path + '.backup'
    hasTxt,              \* file_path contains '.txt'
    runs,                \* calls of extract_words_only so far
    pc,                  \* position of the running pipeline
    use_llm,             \* check_words_with_bbdc: use_llm
    enabled,             \* an LLMWordCorrector was constructed and is_enabled()
    unrecognized_words,      \* parsed_result['unrecognized_words']
    unrecognized_details,    \* words of unrecognized_details
    correction_results,      \* auto_correct_with_llm: correction_results
    verified_corrections,    \* auto_correct_with_llm: verified_corrections
    failed_corrections,      \* indices of correction_results given to round 2
    j,                   \* process_failed_corrections: loop position
    cands,               \* process_failed_corrections: candidates_with_status
    results,             \* process_failed_corrections: results
    corrections_applied, \* parsed_result['corrections_applied']: "unset" when the key is absent
    fileAtStart,         \* history: the word-list file when check_words_with_bbdc was entered
    backupAtStart,       \* history: the backup when check_words_with_bbdc was entered
    llmCalled,           \* history: a request was sent to the LLM in this run
    recInRun,            \* history: lower-cased words the oracle recognized in this run's verification calls
    oracleCalls,         \* history: verification calls to the oracle in this run
    round1Call,          \* history: how the round-1 verification call ended:
                         \* "none" (not made), "ok", "failed" or "raised"
    recognized,          \* the lower-cased recognized set computed from the latest
                         \* verification call, while the marks made from it are in use
    generated,           \* history: the positions in correction_results of the entries
                         \* generate_word_candidates was called for in this run, in order
    engineGap,           \* history: "none" before the run's first LLM request, "call"
                         \* when no delay followed the latest request, "delay" when
                         \* time.sleep was called after it
    backToBack,          \* history: some LLM request of the run was sent after another
                         \* with no delay in between
    applyRet,            \* history: "none", or what apply_corrections_to_file returned
    last,                \* history: the latest round-2 iteration: its position j, the number
                         \* nver of verified candidates (-1: none was verified or refuted),
                         \* the first verified candidate, whether select_best_candidate was
                         \* invoked, the kind gen of the reply to the candidate request
                         \* and whether no candidate came of it (nocand),
                         \* how the oracle call of batch_verify_candidates ended
                         \* ("none", "ok", "failed", "raised"),
                         \* whether select_best_candidate sent the selection request, the kind of
                         \* the reply to that request ("none": not sent) and the
                         \* confidence of what select_best_candidate returned
    aIn, aCs, aOut,      \* inputs and output of apply_corrections_to_file taken alone
    vIn, vOut, vCalls,   \* batch_verify_candidates taken alone: its word list, what it
                         \* returned and the oracle calls it made
    pIn, pOut,           \* BBDCWordChecker.parse_result taken alone: its argument and
                         \* what it returned
    cIn, cOut,           \* LLMWordCorrector.correct_word taken alone: its word and the
                         \* reply to its request, and what it returned
    gui                  \* the desktop interface: its two buttons, self.processing,
                         \* its two worker threads and the external calls in flight

vars == <<file, backup, hasTxt, runs, pc, use_llm, enabled, unrecognized_words, unrecognized_details,
          correction_results, verified_corrections, failed_corrections, j, cands,
          results, corrections_applied, fileAtStart, backupAtStart, llmCalled,
          recInRun, oracleCalls, round1Call, recognized, generated, engineGap,
          backToBack, applyRet, last, aIn, aCs, aOut, vIn, vOut, vCalls, pIn, pOut, cIn, cOut,
          gui>>

----------------------------------------------------------------------------
(* Bounds and universes *)

MaxLines == 2      \* words written to the word-list file by one extraction
MaxCands == 2      \* candidates in one generate_word_candidates reply
MaxRuns == 2       \* pipeline runs on the same path
MaxCorr == 2       \* corrections given to apply_corrections_to_file taken alone
MaxRerunLines == 1 \* words written by one extraction when the path is used again and again

Words == {"a", "A", "b"}
Lines == Words \cup {" a ", ""}
Absent == << >>

Range(s) == {s[i] : i \in DOMAIN s}
SeqsUpTo(S, n) == UNION {[1..k -> S] : k \in 0..n}

\* str.lower on the word universe
Lower(w) == IF w = "A" THEN "a" ELSE w

\* how an oracle call ended for its caller
Outcome(reply) ==
    IF reply.raises THEN "raised" ELSE IF reply.ok THEN "ok" ELSE "failed"

\* str.strip on the line universe
Strip(l) == IF l = " a " THEN "a" ELSE l

\* for word in words: f.write(word + '\n'), read back and split on '\n'
WriteLines(ws) == ws \o <<"">>

RECURSIVE Pick(_, _, _)
\* the words at the positions U, in submission order
Pick(ws, U, i) ==
    IF i > Len(ws) THEN << >>
    ELSE (IF i \in U THEN <<ws[i]>> ELSE << >>) \o Pick(ws, U, i + 1)

----------------------------------------------------------------------------
(* External replies *)

\* BBDCWordChecker.upload_word_file + parse_result on the submitted words.
\* ok: status 200 with a JSON object and a readable data_body; rec: the
\* words the body lists as recognized, read only when ok; raises: status 200
\* with a JSON body that is no container (null, a number), on which the
\* caller's test "error" in result raises TypeError
OracleReplies(submitted) ==
    {[ok |-> o, raises |-> FALSE, rec |-> R] :
            o \in BOOLEAN, R \in SUBSET Range(submitted)}
        \cup {[ok |-> FALSE, raises |-> TRUE, rec |-> {}]}

\* replies to the single-correction request
CorrectReplies ==
    {[kind |-> k, word |-> "a"] : k \in {"error", "empty", "nofield"}}
        \cup {[kind |-> k, word |-> w] : k \in {"json", "text"}, w \in Words}

\* replies to the candidate-generation request: an error, JSON whose
\* 'candidates' is a list of {word, reason} objects, or JSON whose
\* 'candidates' is something else that is not empty (a list of strings)
CandidateReplies ==
    {[kind |-> k, words |-> << >>] : k \in {"error", "shape"}}
        \cup {[kind |-> "json", words |-> ws] : ws \in SeqsUpTo(Words, MaxCands)}

\* replies to the selection request
SelectReplies ==
    {[kind |-> k, word |-> ""] : k \in {"error", "badjson", "nofield"}}
        \cup {[kind |-> "json", word |-> w] : w \in Words}

----------------------------------------------------------------------------
(* LLMWordCorrector *)

\* _parse_llm_response: the content inside a markdown code block, if the
\* reply has one; [fence] stands for the three backquotes of markdown
Unfence(content) == IF content = "[fence]b[fence]" THEN "b" ELSE content

\* str.split() on the reply universe
Split(content) ==
    CASE content \in {"", " "} -> << >>
      [] content = "a, b" -> <<"a,", "b">>
      [] content = " a b" -> <<"a", "b">>
      [] content = ": a" -> <<":", "a">>
      [] content = "\"b\" a" -> <<"\"b\"", "a">>
      [] content = "{\"word\": \"b\"}" -> <<"{\"word\":", "\"b\"}">>
      [] OTHER -> <<content>>

StripTokenNot(token) == token

\* words[0].strip of the double quote, comma, full stop, colon and semicolon
StripToken(token) ==
    CASE token \in {"a,", "a."} -> "a"
      [] token \in {"\"b\"", "b;"} -> "b"
      [] token \in {",", ":"} -> ""
      [] token = "{\"word\":" -> "{\"word"
      [] OTHER -> token

\* correct_word + _parse_llm_response. Reply kinds: disabled (is_enabled
\* false), error (the request raised), status (not 200), empty (no content),
\* nonobject (JSON that is no object), nofield (a JSON object without
\* 'corrected'), json (a JSON object with 'corrected'), text (no JSON)
CorrectWord(word, reply) ==
    LET failure == [original |-> word, success |-> FALSE, corrected |-> word,
                    confidence |-> "none", verified |-> FALSE]
    IN  CASE reply.kind \in {"disabled", "error", "status", "empty", "nonobject"} ->
                failure
          [] reply.kind = "nofield" ->
                [original |-> word, success |-> TRUE, corrected |-> word,
                 confidence |-> "low", verified |-> FALSE]
          [] reply.kind = "json" ->
                [original |-> word, success |-> TRUE, corrected |-> reply.word,
                 confidence |-> "high", verified |-> FALSE]
          [] OTHER ->
                LET words == Split(Unfence(reply.word))
                IN  IF words = << >> THEN failure
                    ELSE [original |-> word, success |-> TRUE,
                          corrected |-> StripToken(words[1]),
                          confidence |-> "low", verified |-> FALSE]

\* generate_word_candidates + _parse_candidates_response: 'candidates' is
\* returned as the reply gave it; objects tells whether its items are
\* objects with a 'word'
GenerateCandidates(reply) ==
    CASE reply.kind = "error" ->
            [success |-> FALSE, candidates |-> << >>, objects |-> TRUE]
      [] reply.kind = "shape" ->
            [success |-> TRUE, candidates |-> << >>, objects |-> FALSE]
      [] OTHER ->
            [success |-> TRUE, candidates |-> reply.words, objects |-> TRUE]

VerifiedOf(cws) == SelectSeq(cws, LAMBDA c : c.verified)

NeedsEngineAlways(verified) == TRUE

\* select_best_candidate: with verified candidates, the request is sent
\* unless there is exactly one
NeedsEngine(verified) == Len(verified) # 1

\* select_best_candidate + _parse_selection_response; engine tells whether
\* the request was sent
SelectBestCandidate(cws, reply) ==
    LET verified == VerifiedOf(cws) IN
    IF verified = << >>
    THEN [success |-> FALSE, selected |-> "", confidence |-> "none", engine |-> FALSE]
    ELSE IF ~NeedsEngine(verified)
    THEN [success |-> TRUE, selected |-> verified[1].word, confidence |-> "high",
          engine |-> FALSE]
    ELSE CASE reply.kind = "error" ->
                [success |-> TRUE, selected |-> verified[1].word,
                 confidence |-> "low", engine |-> TRUE]
           [] reply.kind = "badjson" ->
                [success |-> FALSE, selected |-> "", confidence |-> "none",
                 engine |-> TRUE]
           [] reply.kind = "nofield" ->
                [success |-> TRUE, selected |-> "", confidence |-> "medium",
                 engine |-> TRUE]
           [] OTHER ->
                [success |-> TRUE, selected |-> reply.word, confidence |-> "high",
                 engine |-> TRUE]

----------------------------------------------------------------------------
(* Verification *)

LowerSet(S) == {Lower(w) : w \in S}

BatchVerifyStale(candidates_list, reply) ==
    [w \in Range(candidates_list) |->
        Lower(w) \in recInRun \cup (IF reply.ok THEN LowerSet(reply.rec) ELSE {})]

\* batch_verify_candidates: word |-> word.lower() in recognized, all False
\* when the oracle call fails
BatchVerify(candidates_list, reply) ==
    [w \in Range(candidates_list) |-> reply.ok /\ Lower(w) \in LowerSet(reply.rec)]

\* auto_correct_with_llm: the proposals that differ from their original
CorrectedWords(cr) ==
    LET keep == SelectSeq(cr, LAMBDA c : c.success /\ Lower(c.corrected) # Lower(c.original))
    IN [k \in DOMAIN keep |-> keep[k].corrected]

MarkVerifiedCredit(cr, reply) ==
    [k \in DOMAIN cr |->
        [cr[k] EXCEPT !.verified =
            cr[k].success /\ Lower(cr[k].corrected) \in LowerSet(reply.rec)]]

\* auto_correct_with_llm: tag every correction against the recognized set
MarkVerified(cr, reply) ==
    IF reply.ok
    THEN [k \in DOMAIN cr |->
            [cr[k] EXCEPT !.verified =
                cr[k].success /\ Lower(cr[k].corrected) \in LowerSet(reply.rec)]]
    ELSE cr

\* the entry of verified_corrections made from a round-1 correction
FromCorrection(c) == [original |-> c.original, corrected |-> c.corrected, round |-> 1]

VerifiedRound1(cr) ==
    LET keep == SelectSeq(cr, LAMBDA c : c.verified)
    IN [k \in DOMAIN keep |-> FromCorrection(keep[k])]

\* auto_correct_with_llm: the second-round results appended to verified_corrections
FromResults(res) ==
    LET keep == SelectSeq(res, LAMBDA r : r.selected_word # "")
    IN [k \in DOMAIN keep |->
          [original |-> keep[k].original, corrected |-> keep[k].selected_word, round |-> 2]]

RECURSIVE FailedFrom(_, _)
\* auto_correct_with_llm: failed_corrections, as positions of correction_results
FailedFrom(cr, k) ==
    IF k > Len(cr) THEN << >>
    ELSE (IF cr[k].verified THEN << >> ELSE <<k>>) \o FailedFrom(cr, k + 1)

FailedOf(cr) == FailedFrom(cr, 1)

\* auto_correct_with_llm: apply when there is something to apply
PcAfterRound2(vc) == IF vc # << >> THEN "apply" ELSE "done"

PcAfterRound1Skip(cr, vc) == PcAfterRound2(vc)

\* auto_correct_with_llm: the second round runs when a correction is unverified
PcAfterRound1(cr, vc) ==
    IF FailedOf(cr) # << >> /\ Len(VerifiedOf(cr)) < Len(cr)
    THEN "round2"
    ELSE PcAfterRound2(vc)

----------------------------------------------------------------------------
(* apply_corrections_to_file *)

\* one correction over all lines: line.strip() == original -> corrected
ReplaceAll(lines, c) ==
    [k \in DOMAIN lines |->
        IF Strip(lines[k]) = c.original THEN c.corrected ELSE lines[k]]

RECURSIVE ApplyCorrections(_, _)
\* the corrections in turn, each over the lines the earlier ones left
ApplyCorrections(lines, cs) ==
    IF cs = << >> THEN lines
    ELSE ApplyCorrections(ReplaceAll(lines, Head(cs)), Tail(cs))

AppliedFlagAlways(success) == "true"

\* auto_correct_with_llm: parsed_result['corrections_applied']
AppliedFlag(success) == IF success THEN "true" ELSE "false"

----------------------------------------------------------------------------
(* check_words_with_bbdc *)

\* the first oracle call: an error, or the positions reported unrecognized
InitialReplies(ws) ==
    {[ok |-> FALSE, unknown |-> {}]}
        \cup {[ok |-> TRUE, unknown |-> U] : U \in SUBSET (1..Len(ws))}

UnrecognizedDetailsAll(ws, unknown) == ws

\* check_words_with_bbdc: one detail per word of parsed_result['unrecognized_words']
UnrecognizedDetails(ws, unknown) == Pick(ws, unknown, 1)

ShouldCorrectAnyway(u, details, e) == u /\ details # << >>

\* check_words_with_bbdc: the correction phase is entered
ShouldCorrect(u, details, e) == u /\ details # << >> /\ e

NoIteration ==
    [j |-> 0, nver |-> -1, first |-> "", invoked |-> FALSE, engine |-> FALSE,
     gen |-> "none", nocand |-> FALSE,
     oracle |-> "none", kind |-> "none", conf |-> "none"]

Idle == pc \in {"idle", "done", "failed", "raised"}

\* extract_words_only writes a list of at most n words and calls
\* check_words_with_bbdc, up to the first LLM request or to its return
Start(n) ==
    /\ \E ws \in SeqsUpTo(Words, n) \ {<< >>}, u \in BOOLEAN, e \in BOOLEAN :
        \E reply \in InitialReplies(ws) :
            LET details == UnrecognizedDetails(ws, reply.unknown) IN
            /\ use_llm' = u
            /\ enabled' = (reply.ok /\ u /\ details # << >> /\ e)
            /\ file' = WriteLines(ws)
            /\ fileAtStart' = WriteLines(ws)
            /\ unrecognized_words' = IF reply.ok THEN Pick(ws, reply.unknown, 1) ELSE << >>
            /\ unrecognized_details' = IF reply.ok THEN details ELSE << >>
            /\ pc' = IF ~reply.ok THEN "failed"
                     ELSE IF ShouldCorrect(u, details, e) THEN "round1"
                     ELSE "done"
    /\ runs' = runs + 1
    /\ backupAtStart' = backup
    /\ correction_results' = << >>
    /\ verified_corrections' = << >>
    /\ failed_corrections' = << >>
    /\ j' = 0
    /\ cands' = << >>
    /\ results' = << >>
    /\ corrections_applied' = "unset"
    /\ llmCalled' = FALSE
    /\ recInRun' = {}
    /\ oracleCalls' = 0
    /\ round1Call' = "none"
    /\ recognized' = {}
    /\ generated' = << >>
    /\ engineGap' = "none"
    /\ backToBack' = FALSE
    /\ applyRet' = "none"
    /\ last' = NoIteration
    /\ UNCHANGED <<backup, hasTxt, aIn, aCs, aOut,
                   vIn, vOut, vCalls, pIn, pOut, cIn, cOut, gui>>

----------------------------------------------------------------------------
(* auto_correct_with_llm, round 1 *)

\* the first extraction to a path
StartRun == pc = "idle" /\ Start(MaxLines)

\* an extraction to a path, used before or not
Rerun == Idle /\ runs < MaxRuns /\ Start(MaxRerunLines)

\* a request is sent to the LLM: it follows the latest one directly unless
\* time.sleep was called since
EngineCall == backToBack' = (backToBack \/ engineGap = "call")

MoreDetailsNever(i, details) == FALSE

\* for i, detail in enumerate(unrecognized_details, 1): the loop goes on
\* after the i-th detail
MoreDetails(i, details) == i < Len(details)

\* one iteration of the first loop: correct_word for the next detail
Round1Propose ==
    /\ pc = "round1"
    /\ \E reply \in CorrectReplies :
        LET i == Len(correction_results) + 1
            c == CorrectWord(unrecognized_details[i], reply)
            cr == Append(correction_results,
                         [original |-> c.original, success |-> c.success,
                          corrected |-> c.corrected, verified |-> c.verified])
        IN
        /\ correction_results' = cr
        /\ IF MoreDetails(i, unrecognized_details)
           THEN pc' = "round1" /\ UNCHANGED <<failed_corrections, j>>
           ELSE IF CorrectedWords(cr) # << >>
           THEN pc' = "verify1" /\ UNCHANGED <<failed_corrections, j>>
           ELSE /\ pc' = PcAfterRound1(cr, << >>)
                /\ failed_corrections' = FailedOf(cr)
                /\ j' = 1
    /\ llmCalled' = TRUE
    /\ EngineCall
    /\ engineGap' = "call"
    /\ UNCHANGED <<file, backup, hasTxt, runs, use_llm, enabled, unrecognized_words,
                   unrecognized_details, verified_corrections, cands, results,
                   corrections_applied, fileAtStart, backupAtStart, recInRun,
                   oracleCalls, round1Call, recognized, generated, applyRet, last, aIn, aCs, aOut,
                   vIn, vOut, vCalls, pIn, pOut, cIn, cOut, gui>>

\* original_file_path.replace('.txt', '_llm_corrected_temp.txt') is the
\* word-list path itself when the path holds no '.txt'
TempFileIsWordList == ~hasTxt

\* the word-list file after the round-1 verification: the temp file is
\* written and removed, or left in place when the exception of the oracle
\* call is caught
TempFileAfter(reply) ==
    IF ~TempFileIsWordList THEN file
    ELSE IF reply.raises THEN WriteLines(CorrectedWords(correction_results))
    ELSE Absent

\* the verification of the round-1 proposals: temp file, one oracle call,
\* tagging, os.remove(temp_file); an exception in between is caught
Round1Verify ==
    /\ pc = "verify1"
    /\ \E reply \in OracleReplies(CorrectedWords(correction_results)) :
        LET cr == MarkVerified(correction_results, reply)
            vc == IF reply.ok THEN VerifiedRound1(cr) ELSE << >>
        IN
        /\ correction_results' = cr
        /\ verified_corrections' = vc
        /\ recInRun' = IF reply.ok THEN recInRun \cup LowerSet(reply.rec) ELSE recInRun
        /\ failed_corrections' = FailedOf(cr)
        /\ pc' = PcAfterRound1(cr, vc)
        /\ file' = TempFileAfter(reply)
        /\ round1Call' = Outcome(reply)
        /\ recognized' = IF reply.ok THEN LowerSet(reply.rec) ELSE {}
    /\ j' = 1
    /\ oracleCalls' = oracleCalls + 1
    /\ UNCHANGED <<backup, hasTxt, runs, use_llm, enabled, unrecognized_words, unrecognized_details,
                   cands, results, corrections_applied, fileAtStart, backupAtStart,
                   llmCalled, generated, applyRet, last, aIn, aCs, aOut,
                   vIn, vOut, vCalls, pIn, pOut, cIn, cOut,
                   engineGap, backToBack, gui>>

----------------------------------------------------------------------------
(* process_failed_corrections, round 2 *)

\* the end of one iteration with the results res; after the last one,
\* auto_correct_with_llm appends the selections to verified_corrections
EndIterationAgain(res) ==
    /\ results' = res
    /\ cands' = << >>
    /\ j' = j
    /\ pc' = "round2"
    /\ verified_corrections' = verified_corrections

\* process_failed_corrections: the end of one iteration of the loop over
\* failed_corrections, and what auto_correct_with_llm does with the results
\* after the last
EndIteration(res) ==
    /\ results' = res
    /\ cands' = << >>
    /\ IF j < Len(failed_corrections)
       THEN /\ j' = j + 1
            /\ pc' = "round2"
            /\ verified_corrections' = verified_corrections
       ELSE /\ j' = j
            /\ verified_corrections' = verified_corrections \o FromResults(res)
            /\ pc' = PcAfterRound2(verified_corrections \o FromResults(res))

\* an exception leaves process_failed_corrections, auto_correct_with_llm
\* and check_words_with_bbdc, none of which catches it
Raise ==
    /\ pc' = "raised"
    /\ cands' = << >>
    /\ UNCHANGED <<j, results, verified_corrections>>

NoCandidatesLax(g) == ~g.success

\* process_failed_corrections: if not candidates_result['success'] or not
\* candidates_result['candidates']: continue
NoCandidates(g) == ~g.success \/ g.candidates = << >>

\* generate_word_candidates for the next failed correction; cand['word'] is
\* read from every candidate
Round2Generate ==
    /\ pc = "round2"
    /\ \E reply \in CandidateReplies :
        LET g == GenerateCandidates(reply) IN
        /\ last' = [NoIteration EXCEPT !.j = j, !.gen = reply.kind,
                                        !.nocand = (g.candidates = << >>)]
        /\ recognized' = {}
        /\ generated' = Append(generated, failed_corrections[j])
        /\ IF ~g.objects
           THEN Raise
           ELSE IF NoCandidates(g)
           THEN EndIteration(results)
           ELSE /\ cands' = [k \in DOMAIN g.candidates |->
                               [word |-> g.candidates[k], verified |-> FALSE]]
                /\ pc' = "r2verify"
                /\ UNCHANGED <<j, results, verified_corrections>>
    /\ llmCalled' = TRUE
    /\ EngineCall
    /\ engineGap' = "call"
    /\ UNCHANGED <<file, backup, hasTxt, runs, use_llm, enabled, unrecognized_words,
                   unrecognized_details, correction_results, failed_corrections,
                   corrections_applied, fileAtStart, backupAtStart, recInRun,
                   oracleCalls, round1Call, applyRet, aIn, aCs, aOut,
                   vIn, vOut, vCalls, pIn, pOut, cIn, cOut, gui>>

SkipSelectionNever(verified_count) == FALSE

\* process_failed_corrections: if verified_count == 0: continue
SkipSelection(verified_count) == verified_count = 0

\* batch_verify_candidates for the candidates of the current word, and the
\* tagging of candidates_with_status
Round2Verify ==
    /\ pc = "r2verify"
    /\ \E reply \in OracleReplies([k \in DOMAIN cands |-> cands[k].word]) :
        LET vr == BatchVerify([k \in DOMAIN cands |-> cands[k].word], reply)
            cws == [k \in DOMAIN cands |->
                      [word |-> cands[k].word, verified |-> vr[cands[k].word]]]
            verified_count == Len(VerifiedOf(cws))
        IN
        /\ recInRun' = IF reply.ok THEN recInRun \cup LowerSet(reply.rec) ELSE recInRun
        /\ recognized' = IF reply.ok /\ ~SkipSelection(verified_count)
                          THEN LowerSet(reply.rec) ELSE {}
        /\ last' = IF reply.raises THEN [last EXCEPT !.oracle = "raised"]
                    ELSE [last EXCEPT !.oracle = Outcome(reply),
                                      !.nver = verified_count,
                                      !.first = IF verified_count = 0 THEN ""
                                                ELSE VerifiedOf(cws)[1].word]
        /\ IF reply.raises
           THEN Raise
           ELSE IF SkipSelection(verified_count)
           THEN EndIteration(results)
           ELSE /\ cands' = cws
                /\ pc' = "r2select"
                /\ UNCHANGED <<j, results, verified_corrections>>
    /\ oracleCalls' = oracleCalls + 1
    /\ UNCHANGED <<file, backup, hasTxt, runs, use_llm, enabled, unrecognized_words,
                   unrecognized_details, correction_results, failed_corrections,
                   corrections_applied, fileAtStart, backupAtStart, llmCalled,
                   round1Call, generated, applyRet, aIn, aCs, aOut,
                   vIn, vOut, vCalls, pIn, pOut, cIn, cOut,
                   engineGap, backToBack, gui>>

\* select_best_candidate for the current word, and the result it yields
Round2Select ==
    /\ pc = "r2select"
    /\ \E reply \in SelectReplies :
        LET sel == SelectBestCandidate(cands, reply)
            word == correction_results[failed_corrections[j]].original
        IN
        /\ last' = [last EXCEPT !.invoked = TRUE, !.engine = sel.engine,
                                 !.kind = IF sel.engine THEN reply.kind ELSE "none",
                                 !.conf = sel.confidence]
        /\ llmCalled' = (llmCalled \/ sel.engine)
        /\ recognized' = {}
        /\ IF sel.engine THEN EngineCall ELSE backToBack' = backToBack
        /\ engineGap' = "delay"
        /\ EndIteration(IF sel.success /\ sel.selected # ""
                        THEN Append(results,
                                    [original |-> word, selected_word |-> sel.selected,
                                     idx |-> j])
                        ELSE results)
    /\ UNCHANGED <<file, backup, hasTxt, runs, use_llm, enabled, unrecognized_words,
                   unrecognized_details, correction_results, failed_corrections,
                   corrections_applied, fileAtStart, backupAtStart, recInRun,
                   oracleCalls, round1Call, generated, applyRet, aIn, aCs, aOut,
                   vIn, vOut, vCalls, pIn, pOut, cIn, cOut, gui>>

----------------------------------------------------------------------------
(* auto_correct_with_llm: the corrections are applied *)

\* where apply_corrections_to_file fails: nowhere, reading the file, opening
\* the backup, or opening the file for writing
ApplyFailures == {"none", "read", "backup", "write"}

\* apply_corrections_to_file(original_file_path, verified_corrections) and
\* the flag set from what it returns
Apply ==
    /\ pc = "apply"
    /\ \E fail \in ApplyFailures :
        /\ file = Absent => fail = "read"
        /\ backup' = IF fail \in {"read", "backup"} THEN backup ELSE file
        /\ file' = CASE fail = "none" -> ApplyCorrections(file, verified_corrections)
                     [] OTHER -> file
        /\ applyRet' = IF fail = "none" THEN "true" ELSE "false"
        /\ corrections_applied' = AppliedFlag(fail = "none")
    /\ pc' = "done"
    /\ UNCHANGED <<hasTxt, runs, use_llm, enabled, unrecognized_words, unrecognized_details,
                   correction_results, verified_corrections, failed_corrections, j,
                   cands, results, fileAtStart, backupAtStart, llmCalled, recInRun,
                   oracleCalls, round1Call, recognized, generated, last, aIn, aCs, aOut,
                   vIn, vOut, vCalls, pIn, pOut, cIn, cOut,
                   engineGap, backToBack, gui>>

----------------------------------------------------------------------------
(* The pipeline *)

\* no run yet: neither the word list nor its backup exists
\* FastGUI after __init__: both buttons enabled, no worker thread
GuiIdle ==
    [extract_btn |-> "normal", check_btn |-> "normal", processing |-> FALSE,
     extract_worker |-> "none", calls |-> 0, check_worker |-> "none", inFlight |-> {}]

InitPipeline ==
    /\ gui = GuiIdle
    /\ file = Absent
    /\ backup = Absent
    /\ hasTxt \in BOOLEAN
    /\ runs = 0
    /\ pc = "idle"
    /\ use_llm = FALSE
    /\ enabled = FALSE
    /\ unrecognized_words = << >>
    /\ unrecognized_details = << >>
    /\ correction_results = << >>
    /\ verified_corrections = << >>
    /\ failed_corrections = << >>
    /\ j = 0
    /\ cands = << >>
    /\ results = << >>
    /\ corrections_applied = "unset"
    /\ fileAtStart = Absent
    /\ backupAtStart = Absent
    /\ llmCalled = FALSE
    /\ recInRun = {}
    /\ oracleCalls = 0
    /\ round1Call = "none"
    /\ recognized = {}
    /\ generated = << >>
    /\ engineGap = "none"
    /\ backToBack = FALSE
    /\ applyRet = "none"
    /\ last = NoIteration

\* batch_verify_candidates not called
NotVerified == [kind |-> "none", map |-> {}]

\* parse_result not called
NotParsed == [pending |-> TRUE]

NoResult == [kind |-> "error", unknowList |-> <<"">>, knowList |-> <<"">>]

\* correct_word not called
NotCorrected ==
    [original |-> "", success |-> FALSE, corrected |-> "",
     confidence |-> "pending", verified |-> FALSE]

NoRequest == [word |-> "", reply |-> [kind |-> "none", word |-> ""]]

\* neither batch_verify_candidates nor parse_result nor correct_word is
\* called on its own
OthersIdle ==
    /\ vIn = << >>
    /\ vOut = NotVerified
    /\ vCalls = 0
    /\ pIn = NoResult
    /\ pOut = NotParsed
    /\ cIn = NoRequest
    /\ cOut = NotCorrected

Init ==
    /\ InitPipeline
    /\ aIn = << >>
    /\ aCs = << >>
    /\ aOut = << >>
    /\ OthersIdle

Next ==
    \/ StartRun
    \/ Round1Propose
    \/ Round1Verify
    \/ Round2Generate
    \/ Round2Verify
    \/ Round2Select
    \/ Apply

Spec == Init /\ [][Next]_vars

\* the pipeline run again and again on one path
NextRuns ==
    \/ Rerun
    \/ Round1Propose
    \/ Round1Verify
    \/ Round2Generate
    \/ Round2Verify
    \/ Round2Select
    \/ Apply

SpecRuns == Init /\ [][NextRuns]_vars

----------------------------------------------------------------------------
(* apply_corrections_to_file taken alone, on any lines and corrections *)

Corrections == [original : Words, corrected : Words, round : {1}]

InitApply ==
    /\ InitPipeline
    /\ hasTxt = TRUE
    /\ aIn \in SeqsUpTo(Lines, MaxLines) \ {<< >>}
    /\ aCs \in SeqsUpTo(Corrections, MaxCorr)
    /\ aOut = Absent
    /\ OthersIdle

\* lines = content.split('\n'), the loop over the corrections, '\n'.join(lines)
ApplyAlone ==
    /\ aOut = Absent
    /\ aOut' = ApplyCorrections(aIn, aCs)
    /\ UNCHANGED <<file, backup, hasTxt, runs, pc, use_llm, enabled,
                   unrecognized_words, unrecognized_details, correction_results,
                   verified_corrections, failed_corrections, j, cands, results,
                   corrections_applied, fileAtStart, backupAtStart, llmCalled,
                   recInRun, oracleCalls, round1Call, recognized, generated, applyRet,
                   last, aIn, aCs, vIn, vOut, vCalls, pIn, pOut, cIn, cOut,
                   engineGap, backToBack, gui>>

SpecApply == InitApply /\ [][ApplyAlone]_vars

----------------------------------------------------------------------------
(* batch_verify_candidates taken alone, on any word list and oracle reply *)

MaxVerify == 3     \* words given to batch_verify_candidates taken alone

InitVerify ==
    /\ InitPipeline
    /\ hasTxt = TRUE
    /\ aIn = << >>
    /\ aCs = << >>
    /\ aOut = << >>
    /\ vIn \in SeqsUpTo(Words, MaxVerify)
    /\ vOut = NotVerified
    /\ vCalls = 0
    /\ pIn = NoResult
    /\ pOut = NotParsed
    /\ cIn = NoRequest
    /\ cOut = NotCorrected

\* the returned dict as the set of its items
Items(f) == {<<w, f[w]>> : w \in DOMAIN f}

\* if not candidates_list: return {}; else the temp file, one call of
\* upload_word_file, and the dict made from its reply, unless the test
\* "error" not in result raises
VerifyAlone ==
    /\ vOut = NotVerified
    /\ IF vIn = << >>
       THEN /\ vOut' = [kind |-> "map", map |-> {}]
            /\ vCalls' = vCalls
       ELSE /\ vCalls' = vCalls + 1
            /\ \E reply \in OracleReplies(vIn) :
                  vOut' = IF reply.raises
                          THEN [kind |-> "raised", map |-> {}]
                          ELSE [kind |-> "map", map |-> Items(BatchVerify(vIn, reply))]
    /\ UNCHANGED <<file, backup, hasTxt, runs, pc, use_llm, enabled,
                   unrecognized_words, unrecognized_details, correction_results,
                   verified_corrections, failed_corrections, j, cands, results,
                   corrections_applied, fileAtStart, backupAtStart, llmCalled,
                   recInRun, oracleCalls, round1Call, recognized, generated, applyRet,
                   last, aIn, aCs, aOut, vIn, pIn, pOut, cIn, cOut,
                   engineGap, backToBack, gui>>

SpecVerify == InitVerify /\ [][VerifyAlone]_vars

----------------------------------------------------------------------------
(* BBDCWordChecker.parse_result taken alone, on any oracle result *)

MaxTokens == 3     \* comma-separated tokens in unknowList and in knowList

\* what str.split(',') yields: words, padded words and empty tokens
Tokens == {"a", "b", " a ", ""}

\* the results of upload_word_file: an error dict, or a body whose
\* unknowList and knowList split into the given tokens
OracleResults ==
    {NoResult}
        \cup {[kind |-> "data", unknowList |-> u, knowList |-> k] :
                u \in SeqsUpTo(Tokens, MaxTokens) \ {<< >>},
                k \in SeqsUpTo(Tokens, MaxTokens) \ {<< >>}}

\* [word.strip() for word in s.split(',') if word.strip()]
Trimmed(tokens) ==
    SelectSeq([k \in DOMAIN tokens |-> Strip(tokens[k])], LAMBDA w : w # "")

\* parse_result: the dict it returns, with the keys it has
ParseResult(result) ==
    IF result.kind = "error"
    THEN [error |-> "error"]
    ELSE LET unrecognized == Trimmed(result.unknowList)
             recognized_words == Trimmed(result.knowList)
         IN [unrecognized_words |-> unrecognized,
             recognized_words |-> recognized_words,
             unrecognized_count |-> Len(unrecognized),
             recognized_count |-> Len(recognized_words),
             total_count |-> Len(unrecognized) + Len(recognized_words)]

InitParse ==
    /\ InitPipeline
    /\ hasTxt = TRUE
    /\ aIn = << >>
    /\ aCs = << >>
    /\ aOut = << >>
    /\ vIn = << >>
    /\ vOut = NotVerified
    /\ vCalls = 0
    /\ pIn \in OracleResults
    /\ pOut = NotParsed
    /\ cIn = NoRequest
    /\ cOut = NotCorrected

ParseAlone ==
    /\ pOut = NotParsed
    /\ pOut' = ParseResult(pIn)
    /\ UNCHANGED <<file, backup, hasTxt, runs, pc, use_llm, enabled,
                   unrecognized_words, unrecognized_details, correction_results,
                   verified_corrections, failed_corrections, j, cands, results,
                   corrections_applied, fileAtStart, backupAtStart, llmCalled,
                   recInRun, oracleCalls, round1Call, recognized, generated, applyRet,
                   last, aIn, aCs, aOut, vIn, vOut, vCalls, pIn, cIn, cOut,
                   engineGap, backToBack, gui>>

SpecParse == InitParse /\ [][ParseAlone]_vars

----------------------------------------------------------------------------
(* correct_word taken alone *)

\* contents of a reply that is not JSON
Contents ==
    {"a", "A", "b", "a, b", " a b", ": a", "\"b\" a", ",", "a.", "b;",
     "[fence]b[fence]", " ", ""}

\* every reply to the single-correction request, the disabled engine included
AllCorrectReplies ==
    {[kind |-> k, word |-> ""] :
            k \in {"disabled", "error", "status", "empty", "nonobject"}}
        \cup {[kind |-> "nofield", word |-> "{\"word\": \"b\"}"]}
        \cup {[kind |-> "json", word |-> w] : w \in Words}
        \cup {[kind |-> "text", word |-> c] : c \in Contents}

InitCorrect ==
    /\ InitPipeline
    /\ hasTxt = TRUE
    /\ aIn = << >>
    /\ aCs = << >>
    /\ aOut = << >>
    /\ vIn = << >>
    /\ vOut = NotVerified
    /\ vCalls = 0
    /\ pIn = NoResult
    /\ pOut = NotParsed
    /\ cIn \in {[word |-> w, reply |-> r] : w \in Words, r \in AllCorrectReplies}
    /\ cOut = NotCorrected

CorrectAlone ==
    /\ cOut = NotCorrected
    /\ cOut' = CorrectWord(cIn.word, cIn.reply)
    /\ UNCHANGED <<file, backup, hasTxt, runs, pc, use_llm, enabled,
                   unrecognized_words, unrecognized_details, correction_results,
                   verified_corrections, failed_corrections, j, cands, results,
                   corrections_applied, fileAtStart, backupAtStart, llmCalled,
                   recInRun, oracleCalls, round1Call, recognized, generated, applyRet,
                   last, aIn, aCs, aOut, vIn, vOut, vCalls, pIn, pOut, cIn,
                   engineGap, backToBack, gui>>

SpecCorrect == InitCorrect /\ [][CorrectAlone]_vars

----------------------------------------------------------------------------
(* fast_gui.py: the extraction worker and the check worker *)

MaxGuiCalls == 6   \* external calls of one extraction worker

\* everything but the interface
pipelineVars ==
    <<file, backup, hasTxt, runs, pc, use_llm, enabled, unrecognized_words,
      unrecognized_details, correction_results, verified_corrections,
      failed_corrections, j, cands, results, corrections_applied, fileAtStart,
      backupAtStart, llmCalled, recInRun, oracleCalls, round1Call, recognized,
      generated, engineGap, backToBack, applyRet, last, aIn, aCs, aOut,
      vIn, vOut, vCalls, pIn, pOut, cIn, cOut>>

\* start_extract: the button is enabled; it is disabled and the thread started
StartExtract ==
    /\ gui.extract_btn = "normal"
    /\ gui.extract_worker = "none"
    /\ gui' = [gui EXCEPT !.processing = TRUE, !.extract_btn = "disabled",
                           !.extract_worker = "running", !.calls = 0]
    /\ UNCHANGED pipelineVars

\* extract_worker in extract_words_only: the next oracle or LLM call of
\* check_words_with_bbdc is issued
ExtractCall ==
    /\ gui.extract_worker = "running"
    /\ gui.calls < MaxGuiCalls
    /\ gui' = [gui EXCEPT !.extract_worker = "calling",
                           !.inFlight = @ \cup {"extract_worker"}]
    /\ UNCHANGED pipelineVars

\* the call of the extraction worker returns
ExtractReturn ==
    /\ gui.extract_worker = "calling"
    /\ gui' = [gui EXCEPT !.extract_worker = "running", !.calls = @ + 1,
                           !.inFlight = @ \ {"extract_worker"}]
    /\ UNCHANGED pipelineVars

\* extract_worker ends, with or without auto_check, and schedules
\* extract_complete
ExtractEnd ==
    /\ gui.extract_worker = "running"
    /\ gui' = [gui EXCEPT !.extract_worker = "done", !.calls = 0]
    /\ UNCHANGED pipelineVars

\* extract_complete, in the interface thread
ExtractComplete ==
    /\ gui.extract_worker = "done"
    /\ gui' = [gui EXCEPT !.processing = FALSE, !.extract_btn = "normal",
                           !.extract_worker = "none"]
    /\ UNCHANGED pipelineVars

\* start_check: the button is enabled; it is disabled and the thread started
StartCheck ==
    /\ gui.check_btn = "normal"
    /\ gui.check_worker = "none"
    /\ gui' = [gui EXCEPT !.processing = TRUE, !.check_btn = "disabled",
                           !.check_worker = "running"]
    /\ UNCHANGED pipelineVars

\* check_worker: checker.upload_word_file(file_path) is issued
CheckCall ==
    /\ gui.check_worker = "running"
    /\ gui' = [gui EXCEPT !.check_worker = "calling",
                           !.inFlight = @ \cup {"check_worker"}]
    /\ UNCHANGED pipelineVars

\* the call returns; check_worker formats the result and schedules
\* check_complete
CheckReturn ==
    /\ gui.check_worker = "calling"
    /\ gui' = [gui EXCEPT !.check_worker = "done",
                           !.inFlight = @ \ {"check_worker"}]
    /\ UNCHANGED pipelineVars

\* check_complete, in the interface thread
CheckComplete ==
    /\ gui.check_worker = "done"
    /\ gui' = [gui EXCEPT !.processing = FALSE, !.check_btn = "normal",
                           !.check_worker = "none"]
    /\ UNCHANGED pipelineVars

NextGui ==
    \/ StartExtract
    \/ ExtractCall
    \/ ExtractReturn
    \/ ExtractEnd
    \/ ExtractComplete
    \/ StartCheck
    \/ CheckCall
    \/ CheckReturn
    \/ CheckComplete

SpecGui == Init /\ [][NextGui]_vars

----------------------------------------------------------------------------
(* What the claims speak of *)

\* the lines as the k-th correction of cs finds them
LinesBefore(lines, cs, k) == ApplyCorrections(lines, SubSeq(cs, 1, k - 1))

\* the k-th correction of cs replaces line i
HitsLine(lines, cs, k, i) == Strip(LinesBefore(lines, cs, k)[i]) = cs[k].original

\* the k-th correction of cs replaces some line
Hits(lines, cs, k) == \E i \in DOMAIN lines : HitsLine(lines, cs, k, i)

\* the corrected values of the corrections of cs whose original is the trimmed line l
ValuesFor(cs, l) == {cs[k].corrected : k \in {m \in DOMAIN cs : cs[m].original = Strip(l)}}

\* out is lines with each line decided from lines only: a line whose trimmed
\* content is some correction's original holds such a correction's value,
\* every other line is the input line
DecidedFromInput(lines, cs, out) ==
    /\ DOMAIN out = DOMAIN lines
    /\ \A i \in DOMAIN lines :
          IF ValuesFor(cs, lines[i]) = {} THEN out[i] = lines[i]
          ELSE out[i] \in ValuesFor(cs, lines[i])

\* some correction or selection for the entry with the original w is verified
EntryVerified(w) ==
    \/ \E k \in DOMAIN correction_results :
            correction_results[k].original = w /\ correction_results[k].verified
    \/ \E k \in DOMAIN results : results[k].original = w

\* no correction and no selection of the run is verified
NoneVerified ==
    /\ \A k \in DOMAIN correction_results : ~correction_results[k].verified
    /\ results = << >>

\* the verified round-1 corrections, in order
Round1Verified == VerifiedRound1(correction_results)

----------------------------------------------------------------------------
(* C1 .. C10 *)

\* C1: every corrected value written into the word-list file, from a round-1
\* correction or from a round-2 selection, was reported recognized by the
\* oracle in a verification call of the same run, before the file is mutated.
C1Claim ==
    applyRet = "true" =>
        \A k \in DOMAIN verified_corrections :
            Hits(fileAtStart, verified_corrections, k) =>
                Lower(verified_corrections[k].corrected) \in recInRun

\* C2: the line holding an entry's original word is not overwritten before some
\* correction or selection for that entry is verified, and until then the
\* file's content is the content it had when the run started.
C2Claim ==
    pc \notin {"idle", "failed"} =>
        /\ \A w \in Range(unrecognized_details) :
              ~EntryVerified(w) =>
                  \A i \in DOMAIN fileAtStart :
                      Strip(fileAtStart[i]) = w =>
                          i \in DOMAIN file /\ file[i] = fileAtStart[i]
        /\ NoneVerified => file = fileAtStart

\* C3: a run applies at most one corrected value per original word, and after
\* apply each line that held an original with a verified round-1 correction
\* holds that round-1 corrected value, also when originals repeat and when a
\* corrected value equals another entry's original.
C3Claim ==
    applyRet = "true" =>
        \A i \in DOMAIN fileAtStart :
            /\ Cardinality({verified_corrections[k].corrected :
                    k \in {m \in DOMAIN verified_corrections :
                            HitsLine(fileAtStart, verified_corrections, m, i)}}) <= 1
            /\ ValuesFor(Round1Verified, fileAtStart[i]) # {} =>
                    file[i] \in ValuesFor(Round1Verified, fileAtStart[i])

\* C4: once the backup exists with some content, no later apply call on the
\* same path, in the same run or in a later one, changes or removes it.
C4Claim == [][backup # Absent => backup' = backup]_vars

\* C5: the backup is written before the first write to the word-list file,
\* and it holds the file's content immediately before its first mutation.
C5Claim ==
    (pc \notin {"idle", "failed"} /\ file # fileAtStart) => backup = fileAtStart

\* C6: apply_corrections_to_file replaces each line whose trimmed content
\* equals some correction's original by that correction's corrected value and
\* leaves every other line as it was: its result is that of deciding each
\* line from the input file's content only.
C6Claim == aOut # Absent => DecidedFromInput(aIn, aCs, aOut)

\* C7: corrections_applied is true exactly when apply_corrections_to_file was
\* called in the run and returned true; a failure while reading, backing up
\* or writing makes apply return false, which is reported as
\* corrections_applied = false by a pipeline that returns to its caller.
C7Theorem ==
    /\ corrections_applied = "true" <=> applyRet = "true"
    /\ applyRet = "false" => corrections_applied = "false" /\ pc = "done"
    /\ applyRet = "none" => corrections_applied = "unset"

\* apply failed on the write after the backup was made, and the run returned
C7Witness ==
    /\ pc = "done"
    /\ applyRet = "false"
    /\ corrections_applied = "false"
    /\ backup = fileAtStart
    /\ file = fileAtStart

\* C8: a run for which the oracle reports zero unrecognized entries sends no
\* request to the LLM, leaves the word-list file unchanged and creates no
\* backup file.
C8Theorem ==
    (pc \notin {"idle", "failed"} /\ unrecognized_words = << >>) =>
        /\ pc = "done"
        /\ ~llmCalled
        /\ file = fileAtStart
        /\ backup = backupAtStart
        /\ applyRet = "none"

\* a run with use_llm set in which the oracle recognized both words
C8Witness ==
    /\ pc = "done"
    /\ use_llm
    /\ unrecognized_words = << >>
    /\ Len(fileAtStart) = 3
    /\ backup = Absent

\* C9: a round-2 word none of whose candidates is verified never has
\* select_best_candidate invoked for it and ends unresolved: it yields no
\* result.
C9Theorem ==
    last.nver = 0 =>
        /\ ~last.invoked
        /\ ~last.engine
        /\ pc # "r2select"
        /\ \A k \in DOMAIN results : results[k].idx # last.j

\* the first of two round-2 words had candidates, none verified, and the
\* loop went on to the second
C9Witness ==
    /\ last.nver = 0
    /\ last.j = 1
    /\ pc = "round2"
    /\ j = 2

\* C10, as stated: with exactly one verified candidate, that candidate becomes
\* the word's selection without select_best_candidate being invoked and
\* without a request to the LLM.
C10Claim ==
    last.nver = 1 =>
        /\ ~last.invoked
        /\ ~last.engine
        /\ pc # "r2select" =>
              \E k \in DOMAIN results :
                  results[k].idx = last.j /\ results[k].selected_word = last.first

\* C10, amended: with exactly one verified candidate, select_best_candidate is
\* invoked and returns that candidate without sending a request to the LLM,
\* and the candidate becomes the word's selection.
C10Theorem ==
    last.nver = 1 =>
        /\ ~last.engine
        /\ pc # "r2select" =>
              /\ last.invoked
              /\ \E k \in DOMAIN results :
                    results[k].idx = last.j /\ results[k].selected_word = last.first

\* one candidate of two was verified and was selected with no request sent
C10Witness ==
    /\ last.nver = 1
    /\ last.invoked
    /\ ~last.engine
    /\ pc = "apply"
    /\ \E k \in DOMAIN results :
          results[k].idx = last.j /\ results[k].selected_word = last.first

----------------------------------------------------------------------------
(* C11 .. C20 *)

\* the selection request was sent and failed: a transport error or a
\* non-success status, or a reply that cannot be used
SelectionFailed == last.kind \in {"error", "badjson", "nofield"}

\* C11: when more than one candidate is verified for a word and the
\* selection call fails, the word's selection is the first verified
\* candidate, in candidate order, with confidence low.
C11Claim ==
    (last.nver > 1 /\ SelectionFailed /\ pc # "r2select") =>
        /\ last.conf = "low"
        /\ \E k \in DOMAIN results :
              results[k].idx = last.j /\ results[k].selected_word = last.first

\* C12: no reply of the oracle or of the LLM, of whatever shape, makes
\* auto_correct_with_llm raise: it processes every unrecognized entry and
\* returns to its caller.
C12Claim ==
    /\ pc # "raised"
    /\ pc \in {"apply", "done"} /\ correction_results # << >> =>
            Len(correction_results) = Len(unrecognized_details)

\* a round-2 operation was made in the run, or is the next step
Round2Begun == last.j >= 1 \/ pc \in {"round2", "r2verify", "r2select"}

\* C13: round 1, the proposal for every unrecognized entry and the round-1
\* verification, is completed for all entries before the first round-2
\* operation starts for any entry, and no round-1 operation follows one.
C13Theorem ==
    Round2Begun =>
        /\ Len(correction_results) = Len(unrecognized_details)
        /\ pc \notin {"round1", "verify1"}
        /\ failed_corrections = FailedOf(correction_results)
        /\ (last.j = 0 /\ CorrectedWords(correction_results) # << >>) => oracleCalls = 1
        /\ (last.j = 0 /\ CorrectedWords(correction_results) = << >>) => oracleCalls = 0

\* both entries were proposed and verified in round 1, the second one
\* recognized, and round 2 has generated candidates for the first
C13Witness ==
    /\ pc = "r2verify"
    /\ Len(correction_results) = 2
    /\ Len(CorrectedWords(correction_results)) = 2
    /\ correction_results[2].verified
    /\ last.j = 1

\* C14: verification is fail-closed with no partial credit: when the oracle
\* call fails (timeout, transport error, non-success status or unparsable
\* body), every word of that batch is unverified, in the round-1
\* verification and in batch_verify_candidates, whatever the body lists.
C14Theorem ==
    /\ round1Call = "failed" =>
            /\ \A k \in DOMAIN correction_results : ~correction_results[k].verified
            /\ \A k \in DOMAIN verified_corrections : verified_corrections[k].round = 2
    /\ last.oracle = "failed" =>
            /\ last.nver = 0
            /\ ~last.invoked
            /\ \A k \in DOMAIN results : results[k].idx # last.j

\* the round-1 call failed for two proposals, and so did the call for the
\* candidates of the second word: nothing is verified, nothing applied
C14Witness ==
    /\ round1Call = "failed"
    /\ Len(CorrectedWords(correction_results)) = 2
    /\ last.oracle = "failed"
    /\ last.j = 2
    /\ pc = "done"
    /\ verified_corrections = << >>

\* the number of calls of generate_word_candidates for the k-th entry
GenerateCalls(k) == Cardinality({m \in DOMAIN generated : generated[m] = k})

\* C15: every entry that is not verified at the end of round 1 enters round
\* 2: by the end of the run generate_word_candidates was called for it
\* exactly once, and the pipeline did not abort.
C15Claim ==
    (pc \in {"apply", "done", "raised"} /\ correction_results # << >>) =>
        /\ pc # "raised"
        /\ \A k \in DOMAIN correction_results :
              ~correction_results[k].verified => GenerateCalls(k) = 1

\* C16: a word is marked verified by a verification call only if its
\* lower-cased form is in the lower-cased recognized set the oracle returned
\* for that very call; a set from an earlier call is never reused.
C16Theorem ==
    /\ last.j = 0 =>
            \A k \in DOMAIN correction_results :
                correction_results[k].verified =>
                    /\ round1Call = "ok"
                    /\ Lower(correction_results[k].corrected) \in recognized
    /\ pc = "r2select" =>
            /\ last.oracle = "ok"
            /\ \A k \in DOMAIN cands :
                  cands[k].verified <=> Lower(cands[k].word) \in recognized

\* round 1 had "b" recognized; in round 2 the candidate "b" is not in the
\* recognized set of its own call and is unverified, the candidate "a" is
C16Witness ==
    /\ pc = "r2select"
    /\ "b" \in recInRun
    /\ \E k \in DOMAIN correction_results : correction_results[k].verified
    /\ recognized = {"a"}
    /\ \E k \in DOMAIN cands : cands[k].word = "b" /\ ~cands[k].verified
    /\ \E k \in DOMAIN cands : cands[k].word = "A" /\ cands[k].verified

\* C17: batch_verify_candidates on a non-empty word list issues exactly one
\* oracle call and returns a map with exactly one boolean entry per distinct
\* input word, keyed by the input word in its original case.
C17Claim ==
    (vOut # NotVerified /\ vIn # << >>) =>
        /\ vCalls = 1
        /\ vOut.kind = "map"
        /\ {it[1] : it \in vOut.map} = Range(vIn)
        /\ \A w \in Range(vIn) : Cardinality({it \in vOut.map : it[1] = w}) = 1
        /\ \A it \in vOut.map : it[2] \in BOOLEAN

\* C18: when the LLM feature is disabled because no credential is
\* configured, the correction phase is skipped up front: no LLM call, no
\* verification call, no file mutation and no backup, and the returned
\* result keeps the partition of the initial oracle call.
C18Theorem ==
    (pc \notin {"idle", "failed"} /\ use_llm /\ unrecognized_details # << >> /\ ~enabled) =>
        /\ pc = "done"
        /\ ~llmCalled
        /\ oracleCalls = 0
        /\ file = fileAtStart
        /\ backup = backupAtStart
        /\ applyRet = "none"
        /\ corrections_applied = "unset"
        /\ correction_results = << >>
        /\ verified_corrections = << >>
        /\ unrecognized_words = unrecognized_details

\* use_llm is set and both words are unrecognized, but no credential is
\* configured: the run returned at once
C18Witness ==
    /\ pc = "done"
    /\ use_llm
    /\ ~enabled
    /\ Len(unrecognized_words) = 2
    /\ file = fileAtStart
    /\ ~llmCalled

\* the number of non-empty trimmed tokens
WordCount(tokens) == Cardinality({k \in DOMAIN tokens : Strip(tokens[k]) # ""})

\* C19: for every successful oracle response, the counts can be read from
\* the result of parse_result as unknown_count and known_count, and are the
\* numbers of non-empty trimmed comma-separated words of unknowList and
\* knowList.
C19Claim ==
    (pOut # NotParsed /\ pIn.kind = "data") =>
        /\ "unknown_count" \in DOMAIN pOut
        /\ "known_count" \in DOMAIN pOut
        /\ pOut["unknown_count"] = WordCount(pIn.unknowList)
        /\ pOut["known_count"] = WordCount(pIn.knowList)

\* C20: between any two consecutive LLM engine calls of a run (correct_word,
\* generate_word_candidates, select_best_candidate), in round 1 and in round
\* 2 and on every path through the loops, a delay occurs.
C20Claim == ~backToBack

----------------------------------------------------------------------------
(* C21 .. C30 *)

\* C21: execution is strictly sequential: at most one external call, to the
\* oracle or to the LLM, is in flight in every reachable state, also when
\* the work is started from the desktop interface.
C21Claim == Cardinality(gui.inFlight) <= 1

\* the position of the k-th entry in failed_corrections
FailedPos(k) == CHOOSE m \in DOMAIN failed_corrections : failed_corrections[m] = k

\* the state of the k-th unrecognized entry
EntryState(k) ==
    IF k > Len(correction_results) THEN "Pending"
    ELSE IF pc \in {"round1", "verify1"} THEN "Round1Proposed"
    ELSE IF correction_results[k].verified THEN "Round1Verified"
    ELSE IF k \notin Range(generated) THEN "Round1Failed"
    ELSE IF \E r \in DOMAIN results : results[r].idx = FailedPos(k) THEN "Selected"
    ELSE IF FailedPos(k) # last.j THEN "Unresolved"
    ELSE CASE pc = "r2verify" -> "CandidatesGenerated"
           [] pc = "r2select" -> "CandidatesVerified"
           [] pc = "raised" ->
                IF last.oracle = "raised" THEN "CandidatesGenerated" ELSE "Round1Failed"
           [] OTHER -> "Unresolved"

\* the transitions of an entry; one step of the pipeline may take an entry
\* along two of them (to Round1Failed when nothing is to be verified, to
\* Unresolved when no candidate was generated or none was verified)
EntrySteps ==
    {<<"Pending", "Round1Proposed">>, <<"Pending", "Round1Failed">>,
     <<"Round1Proposed", "Round1Verified">>, <<"Round1Proposed", "Round1Failed">>,
     <<"Round1Failed", "CandidatesGenerated">>, <<"Round1Failed", "Unresolved">>,
     <<"CandidatesGenerated", "CandidatesVerified">>,
     <<"CandidatesGenerated", "Unresolved">>,
     <<"CandidatesVerified", "Selected">>, <<"CandidatesVerified", "Unresolved">>}

TerminalStates == {"Round1Verified", "Selected", "Unresolved"}

\* the pipeline has returned, or only the apply step is left
Returned == pc \in {"apply", "done"} /\ enabled

\* C22: every unrecognized entry moves only along Pending -> Round1Proposed
\* -> Round1Verified | Round1Failed -> CandidatesGenerated ->
\* CandidatesVerified -> Selected | Unresolved, and when the pipeline
\* returns each entry is in one of the terminal states.
C22Theorem ==
    /\ [](Returned =>
            \A k \in DOMAIN unrecognized_details : EntryState(k) \in TerminalStates)
    /\ [][\A k \in DOMAIN unrecognized_details :
            \/ EntryState(k)' = EntryState(k)
            \/ <<EntryState(k), EntryState(k)'>> \in EntrySteps]_vars

\* of two entries the first was verified in round 1 and the second, after
\* candidates were generated and verified, was selected
C22Witness ==
    /\ pc = "apply"
    /\ Len(unrecognized_details) = 2
    /\ EntryState(1) = "Round1Verified"
    /\ EntryState(2) = "Selected"
    /\ last.nver = 2

\* C23: a round-2 word with at least one verified candidate has the
\* selection rule run and ends Selected with a selected word; it ends
\* Unresolved after candidate verification only when none is verified.
C23Claim ==
    (last.nver >= 1 /\ pc # "r2select") =>
        /\ last.invoked
        /\ \E k \in DOMAIN results :
              results[k].idx = last.j /\ results[k].selected_word # ""

\* the words submitted to the oracle by the round-1 verification
Round1Batch == Range(CorrectedWords(correction_results))

\* C24: in round 1 a proposal that differs from its original is in the
\* batch given to the oracle, and an entry whose proposal equals its original
\* (case-insensitively) is marked verified only if that proposal was itself
\* in the batch the oracle checked.
C24Claim ==
    \A k \in DOMAIN correction_results :
        /\ (round1Call # "none" /\ correction_results[k].success
                /\ Lower(correction_results[k].corrected)
                        # Lower(correction_results[k].original)) =>
                correction_results[k].corrected \in Round1Batch
        /\ (correction_results[k].verified
                /\ Lower(correction_results[k].corrected)
                        = Lower(correction_results[k].original)) =>
                correction_results[k].corrected \in Round1Batch

\* C25: when generate_word_candidates fails or yields no candidates for a
\* word, it returns an empty candidate list and the word goes straight to
\* Unresolved: no oracle call and no select_best_candidate call is made for
\* it, and processing continues with the next word.
C25Theorem ==
    /\ last.gen = "error" => last.nocand
    /\ (last.gen \in {"error", "json"} /\ last.nocand) =>
            /\ last.oracle = "none"
            /\ last.nver = -1
            /\ ~last.invoked
            /\ ~last.engine
            /\ \A k \in DOMAIN results : results[k].idx # last.j
            /\ IF last.j < Len(failed_corrections)
               THEN pc = "round2" /\ j = last.j + 1
               ELSE pc \in {"apply", "done"}

\* the candidate request for the first of two words failed, no oracle call
\* was made in round 2, and the loop is at the second word
C25Witness ==
    /\ last.gen = "error"
    /\ last.j = 1
    /\ pc = "round2"
    /\ j = 2
    /\ oracleCalls = 0
    /\ EntryState(1) = "Unresolved"

\* the first whitespace-delimited token of the reply as it came
RawToken(content) ==
    CASE content = "a, b" -> "a,"
      [] content = " a b" -> "a"
      [] content = ": a" -> ":"
      [] content = "\"b\" a" -> "\"b\""
      [] OTHER -> content

\* the first token of the reply text (of the content of its code block, if
\* it has one) without the double quotes, commas, full stops, colons and
\* semicolons at its ends
BareToken(content) ==
    CASE content \in {"a, b", " a b", "a."} -> "a"
      [] content \in {"\"b\" a", "b;", "[fence]b[fence]"} -> "b"
      [] content \in {": a", ","} -> ""
      [] OTHER -> content

TotalFailure ==
    \/ cIn.reply.kind \in {"disabled", "error", "status", "empty"}
    \/ cIn.reply.kind = "text" /\ cIn.reply.word \in {"", " "}

Malformed == cIn.reply.kind = "text" /\ cIn.reply.word \notin {"", " "}

Returns(c) ==
    /\ cOut.original = cIn.word
    /\ cOut.corrected = c
    /\ cOut.confidence \in {"none", "low", "medium", "high"}

\* C26 as stated: correct_word never raises; on a reply that is not JSON it
\* returns the first whitespace-delimited token of the raw reply with
\* confidence low, and on total failure the original word with confidence none.
C26Claim ==
    cOut # NotCorrected =>
        /\ Malformed =>
                Returns(RawToken(cIn.reply.word)) /\ cOut.confidence = "low"
        /\ TotalFailure =>
                Returns(cIn.word) /\ cOut.confidence = "none"

\* C26 amended: correct_word never raises; on a reply that is not JSON it
\* returns, with confidence low, the first whitespace-delimited token of the
\* reply text (of the content of its markdown code block, if it has one)
\* with double quotes, commas, full stops, colons and semicolons removed
\* from both ends, and on total failure the original word with confidence
\* none.
C26Theorem ==
    cOut # NotCorrected =>
        /\ Malformed =>
                Returns(BareToken(cIn.reply.word)) /\ cOut.confidence = "low"
        /\ TotalFailure =>
                Returns(cIn.word) /\ cOut.confidence = "none"

\* correct_word has answered the reply  a, b  with the word a
C26Witness ==
    /\ cIn.reply = [kind |-> "text", word |-> "a, b"]
    /\ cIn.word = "b"
    /\ cOut.corrected = "a"
    /\ cOut.confidence = "low"

\* C27: a reply that is valid JSON but lacks the expected field makes a
\* single-correction call fall back to the first-token heuristic: the call
\* returns what it returns for the same content taken as text. (For a
\* candidate or selection call the result is empty.)
C27Claim ==
    (cOut # NotCorrected /\ cIn.reply.kind = "nofield") =>
        cOut = CorrectWord(cIn.word, [kind |-> "text", word |-> cIn.reply.word])

\* C28: whatever the word-list path, with or without a '.txt' suffix, no
\* verification call of round 1 or round 2 changes the content of the
\* word-list file or removes it: a step that makes an oracle verification
\* call leaves the file as it was.
C28Claim ==
    [][(pc \in {"verify1", "r2verify"}) => (file' = file)]_vars

\* C29: every selection result that round 2 produces names one of the
\* word's candidates that were tagged verified, whatever the reply to the
\* selection request is.
C29Claim ==
    [][(pc = "r2select" /\ Len(results') > Len(results)) =>
            (\E k \in DOMAIN VerifiedOf(cands) :
                results'[Len(results')].selected_word = VerifiedOf(cands)[k].word)]_vars

\* the calls of one run counted from the state: a proposal per entry in
\* the order of the entries, at most one candidate request per entry, and
\* no more oracle verification calls than one for round 1 plus one for each
\* entry whose candidates were submitted
C30Counts ==
    /\ Len(correction_results) <= Len(unrecognized_details)
    /\ (enabled /\ pc \notin {"idle", "failed", "round1"}) =>
            /\ Len(correction_results) = Len(unrecognized_details)
            /\ \A k \in DOMAIN correction_results :
                    correction_results[k].original = unrecognized_details[k]
    /\ \A k \in DOMAIN correction_results : GenerateCalls(k) <= 1
    /\ Range(generated) \subseteq DOMAIN correction_results
    /\ oracleCalls <= (IF round1Call = "none" THEN 0 ELSE 1) + Len(generated)
                            - (IF pc = "r2verify" THEN 1 ELSE 0)
    /\ pc = "r2verify" => (last.j = j /\ last.oracle = "none" /\ cands # << >>)
    /\ pc = "r2select" => (last.j = j /\ ~last.invoked)

\* the calls of one run counted step by step: a proposal is for the next
\* entry, the round-1 verification is left for good once its call is made,
\* an oracle call is made by a verification step only and ends it, the
\* selection for an entry ends the entry's iteration, and once
\* apply_corrections_to_file has returned it is not called again
C30Steps ==
    /\ Len(correction_results') \in {0, Len(correction_results), Len(correction_results) + 1}
    /\ pc = "verify1" => (round1Call = "none" /\ pc' \notin {"round1", "verify1"})
    /\ pc' = "verify1" => pc = "round1"
    /\ oracleCalls' # oracleCalls =>
            (oracleCalls' = oracleCalls + 1 /\ pc \in {"verify1", "r2verify"})
    /\ pc = "r2verify" => (oracleCalls' = oracleCalls + 1 /\ pc' # "r2verify")
    /\ pc = "r2select" =>
            (pc' # "r2select" /\ (j' = j + 1 \/ pc' \in {"apply", "done"}))
    /\ j' >= j
    /\ applyRet # "none" => applyRet' = applyRet

\* C30: in one run over n unrecognized entries every entry gets exactly one
\* correct_word call, at most one generate_word_candidates call and at most
\* one selection request; round 1 makes at most one oracle verification
\* call, round 2 at most one for each entry that has candidates, and
\* apply_corrections_to_file is called at most once.
C30Theorem == []C30Counts /\ [][C30Steps]_vars

\* a run over two entries has made every call it can make: two proposals,
\* the round-1 verification, two candidate requests, two round-2
\* verifications, a selection request, and apply_corrections_to_file
C30Witness ==
    /\ pc = "done"
    /\ Len(correction_results) = 2
    /\ round1Call = "ok"
    /\ Len(generated) = 2
    /\ oracleCalls = 3
    /\ last.engine
    /\ applyRet = "true"

====
